---- MODULE Spec2Model ----
(***************************************************************************)
(* Model of pkg/mproc/netdev.go: the netDev sampler.  NewNetDev starts one *)
(* goroutine (start) that runs calculate(): a ticker-driven loop that      *)
(* reads the counter file (readNetDev), sums the receive/transmit bytes,   *)
(* and hands a rate to the callback.  Close closes the done channel.       *)
(*                                                                         *)
(* Text is modelled as sequences of one-character strings, so that         *)
(* strings.Contains, strings.Fields, strings.Trim and the integer          *)
(* conversion are computed rather than assumed.  Durations are in          *)
(* milliseconds.  Counter values are int64 in the code; the sources below  *)
(* keep every total far inside that range.                                 *)
(***************************************************************************)
EXTENDS Integers, Sequences, FiniteSets, TLC

\* ------------------------------------------------------------------ bounds
\* Number of ticks the ticker delivers in one run.
MaxTicks == 3

\* Number of ticks of the first instance when two instances run together.
MaxTicksTwo == 2

\* Number of ticks of the second instance.
MaxOtherTicks == 2

\* Number of Close calls made after the first one.
MaxRepeatedClose == 1

\* ---------------------------------------------------- text and conversions
Digits == <<"0", "1", "2", "3", "4", "5", "6", "7", "8", "9">>

IsDigit(c) == \E i \in 1..10 : Digits[i] = c

DigitVal(c) == (CHOOSE i \in 1..10 : Digits[i] = c) - 1

\* the test of the delimiter left out
ContainsAlways(line, sep) == TRUE

\* strings.Contains(line, sep) for a one-character sep
Contains(line, sep) == \E i \in 1..Len(line) : line[i] = sep

\* strings.Fields(line): the maximal runs of non-space characters
RECURSIVE FieldsAcc(_, _, _)
FieldsAcc(s, cur, acc) ==
    IF s = <<>>
    THEN IF cur = <<>> THEN acc ELSE Append(acc, cur)
    ELSE IF Head(s) = " "
         THEN FieldsAcc(Tail(s), <<>>, IF cur = <<>> THEN acc ELSE Append(acc, cur))
         ELSE FieldsAcc(Tail(s), Append(cur, Head(s)), acc)

Fields(line) == FieldsAcc(line, <<>>, <<>>)

\* strings.Trim(s, cut): drop every leading and trailing cut character
RECURSIVE TrimLeft(_, _)
TrimLeft(s, cut) ==
    IF s # <<>> /\ Head(s) = cut THEN TrimLeft(Tail(s), cut) ELSE s

RECURSIVE TrimRight(_, _)
TrimRight(s, cut) ==
    IF s # <<>> /\ s[Len(s)] = cut
    THEN TrimRight(SubSeq(s, 1, Len(s) - 1), cut)
    ELSE s

Trim(s, cut) == TrimRight(TrimLeft(s, cut), cut)

RECURSIVE Decimal(_, _)
Decimal(s, acc) ==
    IF s = <<>> THEN acc ELSE Decimal(Tail(s), acc * 10 + DigitVal(Head(s)))

\* mto.Int64(field): the decimal value of a numeric field, 0 for anything else
Int64(s) ==
    IF s # <<>> /\ \A i \in 1..Len(s) : IsDigit(s[i])
    THEN Decimal(s, 0)
    ELSE 0

\* Go's integer division truncates toward zero (b # 0)
GoDiv(a, b) ==
    IF (a >= 0) = (b > 0)
    THEN (IF a >= 0 THEN a ELSE 0 - a) \div (IF b > 0 THEN b ELSE 0 - b)
    ELSE 0 - ((IF a >= 0 THEN a ELSE 0 - a) \div (IF b > 0 THEN b ELSE 0 - b))

\* ------------------------------------------------------------ readNetDev
\* fields[k] of the Go code (0-based) on a TLA+ sequence (1-based)
FieldAt(fields, k) == fields[k + 1]

\* number of fields a line needs: the name and the 16 counters read through
\* count(), which yields 1, 2, ..., 16
NeededFields == 17

\* tsNetDev built from the fields of one line
ParseIface(ifname, fields) ==
    [Name |-> ifname,
     Receive |-> [Bytes      |-> Int64(FieldAt(fields, 1)),
                  Packets    |-> Int64(FieldAt(fields, 2)),
                  Errs       |-> Int64(FieldAt(fields, 3)),
                  Drop       |-> Int64(FieldAt(fields, 4)),
                  FIFO       |-> Int64(FieldAt(fields, 5)),
                  Frame      |-> Int64(FieldAt(fields, 6)),
                  Compressed |-> Int64(FieldAt(fields, 7)),
                  Multicast  |-> Int64(FieldAt(fields, 8)),
                  Colls      |-> 0,
                  Carrier    |-> 0],
     Transmit |-> [Bytes      |-> Int64(FieldAt(fields, 9)),
                   Packets    |-> Int64(FieldAt(fields, 10)),
                   Errs       |-> Int64(FieldAt(fields, 11)),
                   Drop       |-> Int64(FieldAt(fields, 12)),
                   FIFO       |-> Int64(FieldAt(fields, 13)),
                   Colls      |-> Int64(FieldAt(fields, 14)),
                   Carrier    |-> Int64(FieldAt(fields, 15)),
                   Compressed |-> Int64(FieldAt(fields, 16)),
                   Frame      |-> 0,
                   Multicast  |-> 0]]

\* the allow-list: a nil slice, or a slice of names
NilInterfaces == [isNil |-> TRUE, elems |-> <<>>]

\* the test of lines 167-171: TRUE when the line of ifname is kept
Allowed(interfaces, ifname) ==
    interfaces.isNil \/ \E i \in 1..Len(interfaces.elems) : interfaces.elems[i] = ifname

\* the first entry of a name is kept
MapPutKeepFirst(items, ifname, iface) ==
    [n \in (DOMAIN items) \cup {ifname} |-> IF n \in DOMAIN items THEN items[n] ELSE iface]

\* items[ifname] = iface
MapPut(items, ifname, iface) ==
    [n \in (DOMAIN items) \cup {ifname} |-> IF n = ifname THEN iface ELSE items[n]]

\* the scanner loop over the lines the scanner delivers; an index past the
\* end of fields is a run-time panic
RECURSIVE ScanLines(_, _, _)
ScanLines(lines, interfaces, items) ==
    IF lines = <<>>
    THEN [kind |-> "ok", items |-> items]
    ELSE LET line == Head(lines)
             fields == Fields(line)
         IN  IF ~Contains(line, ":")
             THEN ScanLines(Tail(lines), interfaces, items)
             ELSE IF Len(fields) < 1
             THEN [kind |-> "panic", items |-> items]
             ELSE LET ifname == Trim(FieldAt(fields, 0), ":")
                  IN  IF ~Allowed(interfaces, ifname)
                      THEN ScanLines(Tail(lines), interfaces, items)
                      ELSE IF Len(fields) < NeededFields
                      THEN [kind |-> "panic", items |-> items]
                      ELSE ScanLines(Tail(lines), interfaces,
                                     MapPut(items, ifname, ParseIface(ifname, fields)))

EmptyItems == [n \in {} |-> 0]

\* failAt < 0: the scanner reaches the end of the file; failAt = k >= 0: the
\* scanner delivers k lines and then meets a read error (scanner.Err() # nil)
readNetDev(lines, interfaces, failAt) ==
    LET seen == IF failAt < 0 THEN lines ELSE SubSeq(lines, 1, failAt)
        r == ScanLines(seen, interfaces, EmptyItems)
    IN  IF r.kind = "panic" THEN r
        ELSE IF failAt >= 0 THEN [kind |-> "err", items |-> EmptyItems]
        ELSE r

\* the summation of lines 116-119
RECURSIVE SumBytes(_, _, _)
SumBytes(items, names, dir) ==
    IF names = {} THEN 0
    ELSE LET n == CHOOSE x \in names : TRUE
         IN  items[n][dir].Bytes + SumBytes(items, names \ {n}, dir)

TotalRx(items) == SumBytes(items, DOMAIN items, "Receive")

TotalTx(items) == SumBytes(items, DOMAIN items, "Transmit")

\* ------------------------------------------- contents of the counter file
Zeros7 == <<" ", "0", " ", "0", " ", "0", " ", "0", " ", "0", " ", "0", " ", "0">>

\* "  <name>: <rx> 0 0 0 0 0 0 0 <tx> 0 0 0 0 0 0 0"
CounterLine(name, rx, tx) ==
    <<" ", " ">> \o name \o <<":", " ">> \o rx \o Zeros7 \o <<" ">> \o tx \o Zeros7

HeaderLine == <<" ", "f", "a", "c", "e", " ", "|", "b", "y", "t", "e", "s">>

Eth0 == <<"e", "0">>

Lo == <<"l", "o">>

SrcA == <<HeaderLine, CounterLine(Eth0, <<"1", "0", "0", "0">>, <<"3", "0", "0", "0">>)>>

SrcB == <<HeaderLine, CounterLine(Eth0, <<"3", "0", "0", "0">>, <<"1", "0", "0", "0">>)>>

SrcC == <<HeaderLine, CounterLine(Eth0, <<"3", "0", "0", "0">>, <<"3", "0", "0", "0">>),
          CounterLine(Lo, <<"5">>, <<"7">>)>>

\* a non-numeric receive-bytes field
SrcD == <<CounterLine(Eth0, <<"x", "1">>, <<"7">>)>>

\* a line with the delimiter and only two counters
SrcShort == <<HeaderLine, <<"e", "0", ":", " ", "1", "0", "0", " ", "2">> >>

\* a line without the delimiter that has as many fields as a counter line
NumericHeader == <<"h", " ", "9">> \o Zeros7 \o <<" ", "9">> \o Zeros7

SrcHdr == <<NumericHeader, CounterLine(Eth0, <<"0">>, <<"7">>)>>

\* two lines for e0
SrcDup == <<HeaderLine, CounterLine(Eth0, <<"9">>, <<"9">>), CounterLine(Lo, <<"5">>, <<"7">>),
            CounterLine(Eth0, <<"3", "0", "0", "0">>, <<"3", "0", "0", "0">>)>>

Sources == {SrcA, SrcB, SrcC, SrcD, SrcShort, SrcHdr, SrcDup}

\* what a file can hold when it is opened: anything for the kernel's file,
\* three of the contents for the file of WithPath
FileContents(path) ==
    IF path = "/proc/net/dev" THEN Sources ELSE {SrcA, SrcB, SrcShort}

\* values of args.Interfaces: nil, an empty slice, one name, two names
AllowLists ==
    {NilInterfaces,
     [isNil |-> FALSE, elems |-> <<>>],
     [isNil |-> FALSE, elems |-> <<Eth0>>],
     [isNil |-> FALSE, elems |-> <<Lo, <<"w", "l">> >>]}

\* Interval values passed to NewNetDev, in milliseconds
Intervals == {0, 500, 1000, 2000, 2500}

\* ------------------------------------------------------------------ state
VARIABLES
    args,            \* netDevArgs: Name, Interval (ms), Interfaces
    done,            \* TRUE once the done channel is closed
    pc,              \* position of the goroutine started by start()
    tickPending,     \* a tick waits in ticker.C (a channel of capacity 1)
    tickNo,          \* number of ticks the loop has received
    firstIteration,  \* calculate's local
    lastRx,          \* calculate's local
    lastTx,          \* calculate's local
    totalRx,         \* calculate's local, of the tick in progress
    totalTx,         \* calculate's local, of the tick in progress
    file,            \* lines of the file opened by the read in progress
    handles,         \* number of open handles of the counter file
    stats,           \* the map returned by the last successful readNetDev
    calls,           \* the TsCallData values passed to Callback, in order
    cbActive,        \* number of Callback invocations in progress
    log,             \* what was reported through mlog.Error, in order
    hostAlive,       \* FALSE once a panic has left the goroutine unrecovered
    okTotals,        \* history: the totals and the tick of the successful reads
    ctor,            \* position of the caller inside NewNetDev
    opts,            \* the options NewNetDev has not applied yet
    loops,           \* number of goroutines started for the instance
    ret,             \* the error NewNetDev returned
    closeCalls,      \* number of calls of Close
    closePanics,     \* number of Close calls that panicked in their caller
    tickLimit,       \* number of ticks the ticker delivers in this run
    other            \* a second netDev instance of the process

vars == <<args, done, pc, tickPending, tickNo, firstIteration, lastRx, lastTx,
          totalRx, totalTx, file, handles, stats, calls, cbActive, log,
          hostAlive, okTotals, ctor, opts, loops, ret, closeCalls, closePanics,
          tickLimit, other>>

ctorVars == <<ctor, opts, loops, ret>>

closeVars == <<closeCalls, closePanics>>

calcLocals == <<firstIteration, lastRx, lastTx, totalRx, totalTx>>

\* positions between time.NewTicker and the deferred ticker.Stop
InCalculate == pc \in {"wait", "open", "scan", "agg", "callback"}

\* the options a caller passes: WithPath, WithCallback
WithPath(path) == [field |-> "Path", value |-> path]

WithCallback(callback) == [field |-> "Callback", value |-> callback]

OptLists ==
    {<<>>,
     <<WithPath("/tmp/dev")>>,
     <<WithCallback("user"), WithPath("/tmp/dev")>>}

\* the netDevArgs literal of NewNetDev
DefaultArgs(name, interval) ==
    [Name       |-> name,
     Interval   |-> interval,
     Interfaces |-> NilInterfaces,
     Callback   |-> "mlog.Info",
     Path       |-> "/proc/net/dev"]

\* no second instance
NoOther ==
    [pc |-> "absent", done |-> FALSE, tickPending |-> FALSE, tickNo |-> 0,
     interval |-> 0, firstIteration |-> TRUE, lastRx |-> 0, lastTx |-> 0,
     totalRx |-> 0, totalTx |-> 0, file |-> <<>>, handles |-> 0,
     stats |-> EmptyItems, calls |-> <<>>, path |-> "/proc/net/dev"]

\* a second instance, out of NewNetDev(name, interval, WithPath(path)): its
\* own args, its own done channel, its goroutine at the top of start's loop
NewOther(interval, path) ==
    [NoOther EXCEPT !.pc = "start", !.interval = interval, !.path = path]

\* the state NewNetDev is in once the struct literal is built
InitWith(interfaces) ==
    /\ \E interval \in Intervals :
           args = [DefaultArgs("all", interval) EXCEPT !.Interfaces = interfaces]
    /\ ctor = "opts"
    /\ opts \in OptLists
    /\ loops = 0
    /\ ret = "none"
    /\ closeCalls = 0
    /\ closePanics = 0
    /\ done = FALSE
    /\ pc = "none"
    /\ tickPending = FALSE
    /\ tickNo = 0
    /\ firstIteration = TRUE
    /\ lastRx = 0
    /\ lastTx = 0
    /\ totalRx = 0
    /\ totalTx = 0
    /\ file = <<>>
    /\ handles = 0
    /\ stats = EmptyItems
    /\ calls = <<>>
    /\ cbActive = 0
    /\ log = <<>>
    /\ hostAlive = TRUE
    /\ okTotals = <<>>

\* NewNetDev as the package's callers can reach it: Interfaces is nil
Init ==
    /\ InitWith(NilInterfaces)
    /\ tickLimit = MaxTicks
    /\ other = NoOther

\* -------------------------------------------------------------- NewNetDev
\* opt(t): the option sets its field of t.args
ApplyOpt ==
    /\ ctor = "opts"
    /\ opts # <<>>
    /\ args' = [args EXCEPT ![Head(opts).field] = Head(opts).value]
    /\ opts' = Tail(opts)
    /\ UNCHANGED <<done, pc, tickPending, tickNo, calcLocals, file, handles, stats,
                   calls, cbActive, log, hostAlive, okTotals, ctor, loops, ret,
                   closeVars, tickLimit, other>>

\* start before the options are applied
StartBeforeOpts(remaining) == TRUE

\* start and the return come once the loop over opts has ended
StartReady(remaining) == remaining = <<>>

\* t.start(); return t, nil: the goroutine exists, the caller has the instance
StartAndReturn ==
    /\ ctor = "opts"
    /\ StartReady(opts)
    /\ loops' = loops + 1
    /\ pc' = "start"
    /\ ctor' = "returned"
    /\ ret' = "nil"
    /\ UNCHANGED <<args, done, tickPending, tickNo, calcLocals, file, handles,
                   stats, calls, cbActive, log, hostAlive, okTotals, opts,
                   closeVars, tickLimit, other>>

\* ------------------------------------------------------- panics and recover
\* start() without its deferred recover: the panic ends the process
NotRecovered(alive) == FALSE

\* the deferred recover of start(): the panic is logged, the goroutine ends,
\* the process goes on
Recovered(alive) == alive

\* a panic raised in the goroutine at any point under start()'s loop
Panic ==
    /\ pc' = "stopped"
    /\ log' = Append(log, "panic")
    /\ hostAlive' = Recovered(hostAlive)

\* ------------------------------------------------------------------ Close
\* one done channel for the package: Close stops every instance
CloseShared ==
    /\ ctor = "returned"
    /\ ~done
    /\ done' = TRUE
    /\ closeCalls' = closeCalls + 1
    /\ other' = [other EXCEPT !.done = TRUE]
    /\ UNCHANGED <<args, pc, tickPending, tickNo, calcLocals, file, handles,
                   stats, calls, cbActive, log, hostAlive, okTotals,
                   ctorVars, closePanics, tickLimit>>

\* Close that waits for the goroutine to end before it returns
CloseJoin ==
    /\ ctor = "returned"
    /\ ~done
    /\ pc = "stopped"
    /\ done' = TRUE
    /\ closeCalls' = closeCalls + 1
    /\ UNCHANGED <<args, pc, tickPending, tickNo, calcLocals, file, handles,
                   stats, calls, cbActive, log, hostAlive, okTotals,
                   ctorVars, closePanics, tickLimit, other>>

\* close(t.done) on the open channel: the first Close of an instance
Close ==
    /\ ctor = "returned"
    /\ ~done
    /\ done' = TRUE
    /\ closeCalls' = closeCalls + 1
    /\ UNCHANGED <<args, pc, tickPending, tickNo, calcLocals, file, handles,
                   stats, calls, cbActive, log, hostAlive, okTotals,
                   ctorVars, closePanics, tickLimit, other>>

\* close of a closed channel does nothing
NoPanicOnClosed(n) == n

\* close of a closed channel panics in the goroutine that called Close
PanicOnClosed(n) == n + 1

\* close(t.done) on the closed channel: a later Close of the instance
CloseAgain ==
    /\ ctor = "returned"
    /\ done
    /\ closeCalls <= MaxRepeatedClose
    /\ closeCalls' = closeCalls + 1
    /\ closePanics' = PanicOnClosed(closePanics)
    /\ UNCHANGED <<args, done, pc, tickPending, tickNo, calcLocals, file, handles,
                   stats, calls, cbActive, log, hostAlive, okTotals, ctorVars,
                   tickLimit, other>>

\* ----------------------------------------------------------------- ticker
\* the runtime sends a tick unless one is already waiting in the channel
TickerFire ==
    /\ InCalculate
    /\ ~tickPending
    /\ tickNo < tickLimit
    /\ tickPending' = TRUE
    /\ UNCHANGED <<args, done, pc, tickNo, calcLocals, file, handles, stats,
                   calls, cbActive, log, hostAlive, okTotals,
                   ctorVars, closeVars, tickLimit, other>>

\* ------------------------------------------------------------ start's loop
\* select: done is closed, the goroutine returns
StartDone ==
    /\ pc = "start"
    /\ done
    /\ pc' = "stopped"
    /\ UNCHANGED <<args, done, tickPending, tickNo, calcLocals, file, handles,
                   stats, calls, cbActive, log, hostAlive, okTotals,
                   ctorVars, closeVars, tickLimit, other>>

\* select default: calculate() is entered, its locals are initialised and
\* the ticker is created
StartCalculate ==
    /\ pc = "start"
    /\ ~done
    /\ args.Interval > 0
    /\ pc' = "wait"
    /\ firstIteration' = TRUE
    /\ lastRx' = 0
    /\ lastTx' = 0
    /\ tickPending' = FALSE
    /\ UNCHANGED <<args, done, tickNo, totalRx, totalTx, file, handles, stats,
                   calls, cbActive, log, hostAlive, okTotals,
                   ctorVars, closeVars, tickLimit, other>>

\* time.NewTicker panics for a non-positive interval
StartTickerPanic ==
    /\ pc = "start"
    /\ ~done
    /\ args.Interval <= 0
    /\ Panic
    /\ UNCHANGED <<args, done, tickPending, tickNo, calcLocals, file, handles,
                   stats, calls, cbActive, okTotals,
                   ctorVars, closeVars, tickLimit, other>>

\* ------------------------------------------------------- calculate's select
\* case <-n.done: return, ticker.Stop() runs, control is back in start's loop
WaitDone ==
    /\ pc = "wait"
    /\ done
    /\ pc' = "start"
    /\ tickPending' = FALSE
    /\ UNCHANGED <<args, done, tickNo, calcLocals, file, handles, stats, calls,
                   cbActive, log, hostAlive, okTotals,
                   ctorVars, closeVars, tickLimit, other>>

\* case <-ticker.C: select takes any ready case, so this one can be taken
\* while done is closed too
WaitTick ==
    /\ pc = "wait"
    /\ tickPending
    /\ tickPending' = FALSE
    /\ tickNo' = tickNo + 1
    /\ totalRx' = 0
    /\ totalTx' = 0
    /\ pc' = "open"
    /\ UNCHANGED <<args, done, firstIteration, lastRx, lastTx, file, handles,
                   stats, calls, cbActive, log, hostAlive, okTotals,
                   ctorVars, closeVars, tickLimit, other>>

\* ------------------------------------------------------- the read of a tick
\* break instead of continue: calculate returns to start's loop
ReadErrPcBreak == "start"

\* err # nil: the error is logged and the for loop continues with its select
ReadErrPc == "wait"

\* os.Open fails
ReadOpenFail ==
    /\ pc = "open"
    /\ log' = Append(log, "open error")
    /\ pc' = ReadErrPc
    /\ UNCHANGED <<args, done, tickPending, tickNo, calcLocals, file, handles,
                   stats, calls, cbActive, hostAlive, okTotals,
                   ctorVars, closeVars, tickLimit, other>>

\* os.Open succeeds on a file with some contents
ReadOpenOk ==
    /\ pc = "open"
    /\ \E src \in FileContents(args.Path) : file' = src
    /\ handles' = handles + 1
    /\ pc' = "scan"
    /\ UNCHANGED <<args, done, tickPending, tickNo, calcLocals, stats, calls,
                   cbActive, log, hostAlive, okTotals,
                   ctorVars, closeVars, tickLimit, other>>

\* the handle is not closed
NotReleased(h) == h

\* defer file.Close(): runs on every way out of readNetDev, a panic included
Released(h) == h - 1

\* the scan reaches the end of the file: the map is returned, the deferred
\* file.Close() runs
ScanOk ==
    /\ pc = "scan"
    /\ LET r == readNetDev(file, args.Interfaces, 0 - 1)
       IN  /\ r.kind = "ok"
           /\ stats' = r.items
           /\ okTotals' = Append(okTotals, [rx |-> TotalRx(r.items), tx |-> TotalTx(r.items),
                                          tick |-> tickNo])
    /\ handles' = Released(handles)
    /\ pc' = "agg"
    /\ UNCHANGED <<args, done, tickPending, tickNo, calcLocals, file, calls,
                   cbActive, log, hostAlive,
                   ctorVars, closeVars, tickLimit, other>>

\* the scanner meets a read error after k lines: nil and the error are returned
ScanErr ==
    /\ pc = "scan"
    /\ \E k \in 0..Len(file) : readNetDev(file, args.Interfaces, k).kind = "err"
    /\ handles' = Released(handles)
    /\ log' = Append(log, "read error")
    /\ pc' = ReadErrPc
    /\ UNCHANGED <<args, done, tickPending, tickNo, calcLocals, file, stats,
                   calls, cbActive, hostAlive, okTotals,
                   ctorVars, closeVars, tickLimit, other>>

\* a line with the delimiter has too few fields: index out of range
ScanPanic ==
    /\ pc = "scan"
    /\ \E k \in (0 - 1)..Len(file) : readNetDev(file, args.Interfaces, k).kind = "panic"
    /\ handles' = Released(handles)
    /\ Panic
    /\ UNCHANGED <<args, done, tickPending, tickNo, calcLocals, file, stats,
                   calls, cbActive, okTotals,
                   ctorVars, closeVars, tickLimit, other>>

\* ------------------------------------------------- aggregation and the rate
\* the test on firstIteration left out
ShouldEmitAlways(first) == TRUE

\* if !firstIteration
ShouldEmit(first) == ~first

\* the interval rounded to the nearest second instead of truncated
SecondsRounded(interval) == (interval + 500) \div 1000

\* int64(n.args.Interval.Seconds()) for an interval in milliseconds
Seconds(interval) == interval \div 1000

\* the clamp left out
ClampNone(x) == x

\* if Bytes < 0 { Bytes = 0 }
Clamp(x) == IF x < 0 THEN 0 ELSE x

\* (total - last) / int64(Interval.Seconds()), then the clamp
Rate(total, last, interval) == Clamp(GoDiv(total - last, Seconds(interval)))

\* go n.args.Callback(...): the loop goes on while Callback runs
InvokePcAsync == "wait"

\* the position of the goroutine once it has called Callback: inside it
InvokePc == "callback"

\* first successful read: the flag is cleared and the totals are stored
AggBootstrap ==
    /\ pc = "agg"
    /\ ~ShouldEmit(firstIteration)
    /\ totalRx' = TotalRx(stats)
    /\ totalTx' = TotalTx(stats)
    /\ firstIteration' = FALSE
    /\ lastRx' = totalRx'
    /\ lastTx' = totalTx'
    /\ pc' = "wait"
    /\ UNCHANGED <<args, done, tickPending, tickNo, file, handles, stats, calls,
                   cbActive, log, hostAlive, okTotals,
                   ctorVars, closeVars, tickLimit, other>>

\* the interval has no whole second: integer division by zero
AggDivZero ==
    /\ pc = "agg"
    /\ ShouldEmit(firstIteration)
    /\ Seconds(args.Interval) = 0
    /\ totalRx' = TotalRx(stats)
    /\ totalTx' = TotalTx(stats)
    /\ Panic
    /\ UNCHANGED <<args, done, tickPending, tickNo, firstIteration, lastRx, lastTx,
                   file, handles, stats, calls, cbActive, okTotals,
                   ctorVars, closeVars, tickLimit, other>>

\* the rates are computed and Callback is called with them; Tick is a
\* history field: the number of the tick the data comes from
AggEmit ==
    /\ pc = "agg"
    /\ ShouldEmit(firstIteration)
    /\ Seconds(args.Interval) # 0
    /\ totalRx' = TotalRx(stats)
    /\ totalTx' = TotalTx(stats)
    /\ calls' = Append(calls, [Name       |-> args.Name,
                               BytesTx    |-> Rate(totalTx', lastTx, args.Interval),
                               BytesRx    |-> Rate(totalRx', lastRx, args.Interval),
                               Interval   |-> args.Interval,
                               Interfaces |-> args.Interfaces,
                               Tick       |-> tickNo])
    /\ cbActive' = cbActive + 1
    /\ pc' = InvokePc
    /\ UNCHANGED <<args, done, tickPending, tickNo, firstIteration, lastRx, lastTx,
                   file, handles, stats, log, hostAlive, okTotals,
                   ctorVars, closeVars, tickLimit, other>>

\* Callback returns and the previous totals are left as they were
CallbackReturnNoStore ==
    /\ pc = "callback"
    /\ cbActive' = cbActive - 1
    /\ UNCHANGED <<lastRx, lastTx>>
    /\ pc' = "wait"
    /\ UNCHANGED <<args, done, tickPending, tickNo, firstIteration, totalRx,
                   totalTx, file, handles, stats, calls, log, hostAlive, okTotals,
                   ctorVars, closeVars, tickLimit, other>>

\* Callback returns; the totals become the previous totals
CallbackReturn ==
    /\ pc = "callback"
    /\ cbActive' = cbActive - 1
    /\ lastRx' = totalRx
    /\ lastTx' = totalTx
    /\ pc' = "wait"
    /\ UNCHANGED <<args, done, tickPending, tickNo, firstIteration, totalRx,
                   totalTx, file, handles, stats, calls, log, hostAlive, okTotals,
                   ctorVars, closeVars, tickLimit, other>>

\* Callback panics
CallbackPanic ==
    /\ pc = "callback"
    /\ cbActive' = cbActive - 1
    /\ Panic
    /\ UNCHANGED <<args, done, tickPending, tickNo, calcLocals, file, handles,
                   stats, calls, okTotals,
                   ctorVars, closeVars, tickLimit, other>>

\* ---------------------------------------------------------- specification
Next ==
    \/ ApplyOpt
    \/ StartAndReturn
    \/ Close
    \/ CloseAgain
    \/ TickerFire
    \/ StartDone
    \/ StartCalculate
    \/ StartTickerPanic
    \/ WaitDone
    \/ WaitTick
    \/ ReadOpenFail
    \/ ReadOpenOk
    \/ ScanOk
    \/ ScanErr
    \/ ScanPanic
    \/ AggBootstrap
    \/ AggDivZero
    \/ AggEmit
    \/ CallbackReturn
    \/ CallbackPanic

Spec == Init /\ [][Next]_vars

\* ------------------------------------------------------ a second instance
\* The second instance runs the same code on its own record.
oneVars == <<args, done, pc, tickPending, tickNo, firstIteration, lastRx, lastTx,
             totalRx, totalTx, file, handles, stats, calls, cbActive, log,
             hostAlive, okTotals, ctor, opts, loops, ret, closeCalls, closePanics>>

OtherInCalculate == other.pc \in {"wait", "open", "scan", "agg", "callback"}

\* the recover of the second goroutine
OtherPanic(o) == [o EXCEPT !.pc = "stopped"]

OtherClose ==
    /\ other.pc # "absent"
    /\ ~other.done
    /\ other' = [other EXCEPT !.done = TRUE]
    /\ UNCHANGED <<oneVars, tickLimit>>

OtherTickerFire ==
    /\ OtherInCalculate
    /\ ~other.tickPending
    /\ other.tickNo < MaxOtherTicks
    /\ other' = [other EXCEPT !.tickPending = TRUE]
    /\ UNCHANGED <<oneVars, tickLimit>>

OtherStartDone ==
    /\ other.pc = "start"
    /\ other.done
    /\ other' = [other EXCEPT !.pc = "stopped"]
    /\ UNCHANGED <<oneVars, tickLimit>>

OtherStartCalculate ==
    /\ other.pc = "start"
    /\ ~other.done
    /\ other' = IF other.interval > 0
                 THEN [other EXCEPT !.pc = "wait", !.firstIteration = TRUE,
                                    !.lastRx = 0, !.lastTx = 0, !.tickPending = FALSE]
                 ELSE OtherPanic(other)
    /\ UNCHANGED <<oneVars, tickLimit>>

OtherWaitDone ==
    /\ other.pc = "wait"
    /\ other.done
    /\ other' = [other EXCEPT !.pc = "start", !.tickPending = FALSE]
    /\ UNCHANGED <<oneVars, tickLimit>>

OtherWaitTick ==
    /\ other.pc = "wait"
    /\ other.tickPending
    /\ other' = [other EXCEPT !.tickPending = FALSE, !.tickNo = @ + 1,
                               !.totalRx = 0, !.totalTx = 0, !.pc = "open"]
    /\ UNCHANGED <<oneVars, tickLimit>>

OtherReadOpenFail ==
    /\ other.pc = "open"
    /\ other' = [other EXCEPT !.pc = ReadErrPc]
    /\ UNCHANGED <<oneVars, tickLimit>>

OtherReadOpenOk ==
    /\ other.pc = "open"
    /\ \E src \in FileContents(other.path) :
           other' = [other EXCEPT !.file = src, !.handles = @ + 1, !.pc = "scan"]
    /\ UNCHANGED <<oneVars, tickLimit>>

\* the three ways out of the scan: the map, the read error, the panic; the
\* file is closed and its lines are gone
OtherScan ==
    /\ other.pc = "scan"
    /\ \E k \in (0 - 1)..Len(other.file) :
           LET r == readNetDev(other.file, NilInterfaces, k)
               o == [other EXCEPT !.handles = Released(@), !.file = <<>>]
           IN  other' = IF r.kind = "ok"
                        THEN [o EXCEPT !.stats = r.items, !.pc = "agg"]
                        ELSE IF r.kind = "err"
                        THEN [o EXCEPT !.pc = ReadErrPc]
                        ELSE OtherPanic(o)
    /\ UNCHANGED <<oneVars, tickLimit>>

\* the aggregation: bootstrap, division by zero, or the call of Callback
OtherAggregate ==
    /\ other.pc = "agg"
    /\ LET rx == TotalRx(other.stats)
           tx == TotalTx(other.stats)
           o == [other EXCEPT !.totalRx = rx, !.totalTx = tx, !.stats = EmptyItems]
       IN  other' = IF ~ShouldEmit(other.firstIteration)
                    THEN [o EXCEPT !.firstIteration = FALSE, !.lastRx = rx,
                                   !.lastTx = tx, !.pc = "wait"]
                    ELSE IF Seconds(other.interval) = 0
                    THEN OtherPanic(o)
                    ELSE [o EXCEPT !.calls = Append(@,
                                       [BytesRx |-> Rate(rx, other.lastRx, other.interval),
                                        BytesTx |-> Rate(tx, other.lastTx, other.interval)]),
                                   !.pc = InvokePc]
    /\ UNCHANGED <<oneVars, tickLimit>>

OtherCallbackReturn ==
    /\ other.pc = "callback"
    /\ other' = [other EXCEPT !.lastRx = other.totalRx, !.lastTx = other.totalTx,
                               !.pc = "wait"]
    /\ UNCHANGED <<oneVars, tickLimit>>

OtherCallbackPanic ==
    /\ other.pc = "callback"
    /\ other' = OtherPanic(other)
    /\ UNCHANGED <<oneVars, tickLimit>>

OtherNext ==
    \/ OtherClose
    \/ OtherTickerFire
    \/ OtherStartDone
    \/ OtherStartCalculate
    \/ OtherWaitDone
    \/ OtherWaitTick
    \/ OtherReadOpenFail
    \/ OtherReadOpenOk
    \/ OtherScan
    \/ OtherAggregate
    \/ OtherCallbackReturn
    \/ OtherCallbackPanic

\* two instances of one process, each with MaxTicksTwo ticks at most
InitTwo ==
    /\ InitWith(NilInterfaces)
    /\ args.Interval \in {0, 500, 1000}
    /\ opts = <<WithPath("/tmp/dev")>>
    /\ tickLimit = MaxTicksTwo
    /\ other = NewOther(1000, "/tmp/dev")

NextTwo == Next \/ OtherNext

SpecTwo == InitTwo /\ [][NextTwo]_vars

\* the same sampler with an allow-list in args.Interfaces
InitAllow ==
    /\ \E interfaces \in AllowLists : InitWith(interfaces)
    /\ tickLimit = MaxTicks
    /\ other = NoOther

SpecAllow == InitAllow /\ [][Next]_vars

\* ----------------------------------------------------------------- claims
Panicked == \E i \in 1..Len(log) : log[i] = "panic"

ReadFailed(before, after) ==
    after = Append(before, "open error") \/ after = Append(before, "read error")

\* C1: once Close has signalled cancellation, Callback is never invoked
\* again, whatever the loop was doing when Close ran.
C1_NoCallbackAfterClose == [][done => calls' = calls]_vars

\* C2: the first successful read stores the totals and invokes no Callback,
\* failed reads before it or not; no Callback is invoked before the second
\* successful read.
C2_BootstrapSuppression ==
    /\ Len(okTotals) < 2 => calls = <<>>
    /\ (Len(okTotals) = 1 /\ pc # "agg") =>
           /\ ~firstIteration
           /\ lastRx = okTotals[1].rx
           /\ lastTx = okTotals[1].tx

C2_Witness ==
    /\ Len(okTotals) = 1
    /\ pc = "wait"
    /\ log # <<>>
    /\ calls = <<>>
    /\ lastRx = 3005

\* C3: for every strictly positive interval, sub-second ones included, and
\* while Close has not run, the aggregation of every successful read after
\* the first invokes Callback exactly once and leaves the loop running.
C3_ResultProduction ==
    [][(pc = "agg" /\ pc' # "agg" /\ Len(okTotals) >= 2 /\ ~done /\ args.Interval > 0)
          => (Len(calls') = Len(calls) + 1 /\ pc' = "callback")]_vars

\* C4: for an interval of at least one second, the k-th Result carries, for
\* each direction, the difference of the (k+1)-th and k-th successful totals
\* divided by the whole seconds of the interval, truncated, whenever that
\* quotient is not negative.
C4_DeltaCorrectness ==
    \A k \in 1..Len(calls) :
        args.Interval >= 1000 =>
            LET secs == args.Interval \div 1000
                qRx == GoDiv(okTotals[k + 1].rx - okTotals[k].rx, secs)
                qTx == GoDiv(okTotals[k + 1].tx - okTotals[k].tx, secs)
            IN  /\ Len(okTotals) > k
                /\ qRx >= 0 => calls[k].BytesRx = qRx
                /\ qTx >= 0 => calls[k].BytesTx = qTx

\* T1 = 1000, T2 = 3000, interval 2s: the rate is 1000
C4_Witness ==
    /\ Len(calls) >= 1
    /\ args.Interval = 2000
    /\ okTotals[1].rx = 1000
    /\ okTotals[2].rx = 3000
    /\ calls[1].BytesRx = 1000

\* C5: every delivered rate is >= 0; a direction whose total went down has
\* rate 0, and the other direction keeps the rate of its own difference.
C5_NegativeDeltaClamping ==
    \A k \in 1..Len(calls) :
        LET secs == args.Interval \div 1000
            dRx == okTotals[k + 1].rx - okTotals[k].rx
            dTx == okTotals[k + 1].tx - okTotals[k].tx
        IN  /\ calls[k].BytesRx >= 0
            /\ calls[k].BytesTx >= 0
            /\ dRx < 0 => calls[k].BytesRx = 0
            /\ dTx < 0 => calls[k].BytesTx = 0
            /\ (dRx < 0 /\ dTx >= 0) => calls[k].BytesTx = dTx \div secs
            /\ (dTx < 0 /\ dRx >= 0) => calls[k].BytesRx = dRx \div secs

C5_Witness ==
    /\ Len(calls) >= 1
    /\ okTotals[2].rx < okTotals[1].rx
    /\ calls[1].BytesRx = 0
    /\ calls[1].BytesTx > 0

\* C6: a tick whose read fails invokes no Callback, leaves the previous
\* totals and the bootstrap flag as they were, and leaves the loop at its
\* select, where the next tick starts another read.
C6_ReadFailureResilience ==
    [][ReadFailed(log, log') =>
          /\ calls' = calls
          /\ cbActive' = cbActive
          /\ lastRx' = lastRx
          /\ lastTx' = lastTx
          /\ firstIteration' = firstIteration
          /\ pc' = "wait"]_vars

\* a read is attempted after a failed one, with totals already stored
C6_Witness ==
    /\ pc = "scan"
    /\ \E i \in 1..Len(log) : log[i] \in {"open error", "read error"}
    /\ Len(okTotals) = 1
    /\ lastRx = 1000

\* C7: whatever follows the name on the lines that hold the delimiter, a
\* scan that meets no I/O error returns a snapshot and the loop goes on.
C7_ForgivingParse ==
    [][(pc = "scan" /\ pc' # "scan" /\ ~ReadFailed(log, log'))
          => (pc' = "agg" /\ log' = log)]_vars

\* C8: a panic inside the loop is recovered in start(): the process stays
\* alive, the loop has ended, and Callback is never invoked again.
C8_FaultContainment ==
    [][/\ Panicked' => (hostAlive' /\ pc' = "stopped" /\ cbActive' = 0)
       /\ Panicked => calls' = calls]_vars

C8_Witness ==
    /\ Panicked
    /\ pc = "stopped"
    /\ hostAlive
    /\ Len(calls) >= 1

\* C9: at most one Callback invocation is in progress, the invocations come
\* in tick order, and none is in progress while a later tick is read or
\* aggregated.
C9_CallbackOrdering ==
    /\ cbActive \in {0, 1}
    /\ cbActive = 1 <=> pc = "callback"
    /\ pc \in {"open", "scan", "agg"} => cbActive = 0
    /\ \A i, j \in 1..Len(calls) : i < j => calls[i].Tick < calls[j].Tick

C9_Witness ==
    /\ Len(calls) = 2
    /\ calls[1].Tick < calls[2].Tick
    /\ pc = "callback"
    /\ cbActive = 1

\* C10: after Close the loop exits at the latest when it next stands at its
\* select on the tick and the cancellation signal.
C10_ExitAtNextWait ==
    [][(done /\ pc = "wait" /\ pc' # "wait") => pc' = "start"]_vars

\* C12: the first Close of an instance can be taken and completes in every
\* state of the loop: it needs nothing from the goroutine and leaves the
\* goroutine where it is.
C12_CloseNeverBlocks ==
    /\ [](ctor = "returned" /\ closeCalls = 0 => ENABLED Close)
    /\ [][(closeCalls = 0 /\ closeCalls' = 1) =>
             (done' /\ pc' = pc /\ closePanics' = 0 /\ log' = log)]_vars

\* Close has returned while Callback is still running
C12_Witness ==
    /\ closeCalls = 1
    /\ closePanics = 0
    /\ done
    /\ pc = "callback"

\* C14: NewNetDev returns a nil error, reads nothing itself, has applied
\* every option when the loop starts, and starts one goroutine.
C14_Construction ==
    /\ ctor = "returned" => (ret = "nil" /\ loops = 1)
    /\ ctor = "opts" =>
           /\ loops = 0
           /\ pc = "none"
           /\ tickNo = 0
           /\ handles = 0
           /\ file = <<>>
           /\ okTotals = <<>>
           /\ log = <<>>
    /\ pc # "none" => (opts = <<>> /\ ctor = "returned")

C14_Witness ==
    /\ ctor = "returned"
    /\ ret = "nil"
    /\ loops = 1
    /\ pc = "start"
    /\ args.Path = "/tmp/dev"
    /\ args.Callback = "user"

\* C20: a Close on an instance already closed panics in its caller, whether
\* the loop has ended or not; the recover of start() takes no part in it.
C20_SingleUseClose ==
    [][closeCalls' = closeCalls + 1 =>
          IF done
          THEN closePanics' = closePanics + 1 /\ log' = log /\ pc' = pc /\ hostAlive' = hostAlive
          ELSE closePanics' = closePanics]_vars

\* the second Close panicked while the loop was still running
C20_Witness ==
    /\ closeCalls = 2
    /\ closePanics = 1
    /\ pc = "scan"

\* names of the lines of a file that hold the delimiter
HasDelimiter(line) == \E i \in 1..Len(line) : line[i] = ":"

NameOfLine(line) == Trim(Fields(line)[1], ":")

SourceNames(lines) ==
    {NameOfLine(lines[i]) : i \in {j \in 1..Len(lines) : HasDelimiter(lines[j])}}

ElemsOf(interfaces) == {interfaces.elems[i] : i \in 1..Len(interfaces.elems)}

\* the last line of a file that carries a name
LastLineOf(lines, name) ==
    lines[CHOOSE i \in 1..Len(lines) :
              /\ HasDelimiter(lines[i]) /\ NameOfLine(lines[i]) = name
              /\ \A j \in (i + 1)..Len(lines) :
                     ~(HasDelimiter(lines[j]) /\ NameOfLine(lines[j]) = name)]

C13_ResourceRelease ==
    /\ handles \in {0, 1}
    /\ pc # "scan" => handles = 0

\* the read has panicked on a short line and the handle is closed
C13_Witness ==
    /\ pc = "stopped"
    /\ Panicked
    /\ file = SrcShort
    /\ handles = 0
    /\ Len(okTotals) = 1

\* C16: a line without the delimiter adds no entry to the snapshot and
\* nothing to the totals: the read gives what it gives on the file with
\* those lines taken out.
C16_HeaderLineSkipping ==
    pc = "agg" =>
        LET kept == SelectSeq(file, HasDelimiter)
            r == ScanLines(kept, args.Interfaces, EmptyItems)
        IN  /\ DOMAIN stats \subseteq SourceNames(file)
            /\ stats = r.items
            /\ okTotals[Len(okTotals)].rx = TotalRx(r.items)
            /\ okTotals[Len(okTotals)].tx = TotalTx(r.items)

C16_Witness ==
    /\ pc = "agg"
    /\ file = SrcHdr
    /\ DOMAIN stats = {Eth0}
    /\ okTotals[Len(okTotals)].rx = 0
    /\ okTotals[Len(okTotals)].tx = 7

\* C17: with several lines for one name the snapshot has one entry for it,
\* with the counters of the last of them, and the totals count it once.
C17_DuplicateLines ==
    pc = "agg" =>
        LET last == [n \in SourceNames(file) |-> ParseIface(n, Fields(LastLineOf(file, n)))]
        IN  /\ \A n \in DOMAIN stats : stats[n] = last[n]
            /\ okTotals[Len(okTotals)].rx = SumBytes(last, DOMAIN stats, "Receive")
            /\ okTotals[Len(okTotals)].tx = SumBytes(last, DOMAIN stats, "Transmit")

C17_Witness ==
    /\ pc = "agg"
    /\ file = SrcDup
    /\ stats[Eth0].Receive.Bytes = 3000
    /\ okTotals[Len(okTotals)].rx = 3005
    /\ okTotals[Len(okTotals)].tx = 3007

\* C18: once a successful read has been dealt with, the previous totals are
\* that read's totals; so with failed reads between two successful ones the
\* rate is the difference to the last successful read over the whole
\* seconds of one interval.
C18_DeltaAcrossFailedReads ==
    /\ (pc \in {"wait", "open", "scan"} /\ okTotals # <<>>) =>
           /\ lastRx = okTotals[Len(okTotals)].rx
           /\ lastTx = okTotals[Len(okTotals)].tx
    /\ (pc = "callback" /\ args.Interval >= 1000) =>
           LET n == Len(okTotals)
               secs == args.Interval \div 1000
               dRx == okTotals[n].rx - okTotals[n - 1].rx
               dTx == okTotals[n].tx - okTotals[n - 1].tx
           IN  /\ n >= 2
               /\ dRx >= 0 => calls[Len(calls)].BytesRx = dRx \div secs
               /\ dTx >= 0 => calls[Len(calls)].BytesTx = dTx \div secs

\* ticks 1 and 3 were read, tick 2 failed: 2000 bytes over a 2s interval
\* give 1000, not 500
C18_Witness ==
    /\ pc = "callback"
    /\ args.Interval = 2000
    /\ Len(okTotals) = 2
    /\ okTotals[1].tick = 1
    /\ okTotals[2].tick = 3
    /\ okTotals[1].rx = 1000
    /\ okTotals[2].rx = 3000
    /\ calls[1].BytesRx = 1000

\* C19: calculate returns only once done is closed, so it is entered once:
\* the goroutine enters it before any tick, and the bootstrap flag, once
\* cleared, stays cleared.
C19_SingleBootstrap ==
    [][/\ (pc # "start" /\ pc' = "start" /\ pc # "none") => done
       /\ (pc = "start" /\ pc' = "wait") => (tickNo = 0 /\ okTotals = <<>>)
       /\ (~firstIteration /\ pc # "none") => ~firstIteration']_vars

\* calculate has returned after Close, with results delivered before
C19_Witness ==
    /\ pc = "stopped"
    /\ done
    /\ ~Panicked
    /\ ~firstIteration
    /\ Len(calls) = 2

\* C15: with two instances running, a step of one leaves the previous
\* totals, the bootstrap flag, the done channel and the running status of
\* the other as they were.
C15_SamplerIndependence ==
    [][/\ oneVars' # oneVars =>
              /\ other.lastRx' = other.lastRx
              /\ other.lastTx' = other.lastTx
              /\ other.firstIteration' = other.firstIteration
              /\ other.done' = other.done
              /\ other.pc' = other.pc
       /\ other' # other =>
              /\ lastRx' = lastRx
              /\ lastTx' = lastTx
              /\ firstIteration' = firstIteration
              /\ done' = done
              /\ pc' = pc]_vars

\* the first instance is closed and has stopped, the second is in its
\* Callback, each with the totals of its own reads
C15_Witness ==
    /\ done
    /\ pc = "stopped"
    /\ lastRx = 3000
    /\ ~other.done
    /\ other.pc = "callback"
    /\ other.lastRx = 1000
    /\ ~other.firstIteration

====
